---- MODULE Spec2Model ----
(***************************************************************************)
(* The session-aware chat proxy route (app/api/chat/route.ts): the         *)
(* in-memory sessionCache, getOrCreateSession, the POST and DELETE         *)
(* handlers and the periodic cleanup interval.                             *)
(*                                                                         *)
(* Handlers run on one event loop: a handler's code between two awaits is  *)
(* one atomic step, and handlers interleave at their awaits (the           *)
(* downstream fetches and the body reads).                                 *)
(*                                                                         *)
(* Time.  The code reads a record's lastActivity only through              *)
(* sessionAge = Date.now() - lastActivity, compared with 30 minutes, and   *)
(* writes it only as Date.now().  The model keeps sessionAge itself (the   *)
(* field age), and for every pending abort timer the time since it was     *)
(* set.  Both stop growing one past the value they are compared with:      *)
(* beyond it the code cannot tell two values apart.  The clock advances    *)
(* by the amounts of TickSteps, each longer than REQUEST_TIMEOUT: a timer  *)
(* that is pending across one is due after it.                             *)
(***************************************************************************)
EXTENDS Integers, FiniteSets, Sequences, TLC

(* ------------------------------ bounds -------------------------------- *)
\* POST requests that arrive in one run.
MaxReqs == 2
\* Evaluations of the route module in one run of the process.
MaxLoads == 2

(* ------------------------- program constants -------------------------- *)
REQUEST_TIMEOUT == 120000
TTL == 30 * 60 * 1000
maxAge == 30 * 60 * 1000

\* An absent or empty (falsy) header, field or query parameter.
NoVal == "none"
\* data.session_id of a body without the field; also getOrCreateSession's fallback.
Undefined == 0
\* sessionCache[clientId] of a key the object does not hold.
NoRecord == [sessionId |-> -1, age |-> -1]

\* The POST handlers that can be in progress at once.
Reqs == {"p", "q"}

\* Values the identity sources take in the requests of a run.
HeaderIds == {NoVal, "a"}
BodyIds == {NoVal, "a"}
ForwardedIds == {NoVal, "a"}
ClientKeys == {"a", "default"}

\* Values of one identity source where the sources are told apart (SpecPure).
IdentityValues == {NoVal, "a", "b", "c"}

\* The amounts the clock advances by: the TTL, 1 ms less and 1 ms more.
TickSteps == {TTL - 1, TTL, TTL + 1}

\* The HTTP statuses of a non-OK downstream chat response.
ErrStatuses == {429}

\* The errors a fetch rejects with, other than the abort.
FetchErrors == {"ECONNREFUSED", "other"}

VARIABLES
    started,      \* POST requests arrived so far
    sessionCache, \* the module's sessionCache object
    cleared,      \* history, kept under SpecClear only: the key and session id of
                  \* the record the most recent DELETE removed, until the key's
                  \* next getOrCreateSession
    req,          \* per handler slot: the POST handler's locals and what it did so far
    last,         \* the POST response sent by the step just taken, if it sent one
    mod,          \* the process across evaluations of the route module:
                  \*   loads    evaluations so far; sessionCache is the object of
                  \*            the latest one, which the handlers use
                  \*   timers   the evaluations whose setInterval is pending; the
                  \*            callback sweeps the sessionCache of its evaluation
                  \*   sessionCleanupInterval
                  \*            global.__sessionCleanupInterval: the evaluation
                  \*            whose timer it holds, 0 while it is not set
    calc          \* under SpecPure only: one application of a function of the
                  \* handlers to inputs drawn at the start:
                  \*   fn   the function    in   its inputs
                  \*   out  its result      done it has been applied

vars == <<started, sessionCache, cleared, req, last, mod, calc>>

(* A handler slot:                                                         *)
(*   pc           where the handler is suspended (idle: no request)        *)
(*   clientId     POST's clientId                                          *)
(*   sessionId    POST's sessionId (chatRequest.session_id)                *)
(*   elapsed      time since setTimeout set the abort timer, while pending *)
(*   timerArmed   the setTimeout is pending (not fired, not cleared)       *)
(*   aborted      controller.signal.aborted                                *)
(*   status       the downstream's status while its error body is read     *)
(*   lookup       how the session was found: explicit, hit, miss, expired  *)
(*   createResult how the session-creation call went                       *)
(*   chatCalls    chat calls of the request that went downstream           *)
(*   atArrival    after a hit: the record as it was before the request     *)
(*                touched it, following every later write by another actor *)
IdleReq ==
    [pc |-> "idle", clientId |-> NoVal, sessionId |-> Undefined, elapsed |-> 0,
     timerArmed |-> FALSE, aborted |-> FALSE, status |-> 0, lookup |-> "none",
     createResult |-> "none", chatCalls |-> 0, atArrival |-> NoRecord]

\* What is kept of the response of slot q, answered with status st.
Response(q, st) ==
    [status |-> st, lookup |-> q.lookup, createResult |-> q.createResult]

NoResponse == Response(IdleReq, 0)

NoClear == [clientId |-> NoVal, sessionId |-> Undefined]

\* No function application is being followed.
NoCalc == [fn |-> "none", in |-> <<>>, out |-> <<>>, done |-> FALSE]

(* ------------------------------ helpers ------------------------------- *)
Min(a, b) == IF a < b THEN a ELSE b

\* JavaScript's a || b on values whose falsy case is "absent".
OrElse(a, b) == IF a # NoVal THEN a ELSE b

\* ResolveClientId that prefers the body's clientId to the x-client-id header.
ResolveClientIdBodyFirst(hdr, bodyCid, xff) ==
    OrElse(bodyCid, OrElse(hdr, OrElse(xff, "default")))

\* POST's clientId: header, then body field, then x-forwarded-for, then "default".
ResolveClientId(hdr, bodyCid, xff) ==
    OrElse(hdr, OrElse(bodyCid, OrElse(xff, "default")))

\* DELETE's clientId: the header or "default".
DeleteClientId(hdr) == OrElse(hdr, "default")

\* IsLive with the comparison of the cleanup interval's complement (<=).
IsLiveInclusive(rec) == rec.age <= TTL

\* getOrCreateSession's test of a cached record: sessionAge < 30 * 60 * 1000.
IsLive(rec) == rec.age < TTL

\* The cleanup interval's test of a record: now - session.lastActivity > maxAge.
SweepRemoves(rec) == rec.age > maxAge

InFlight(r) == req[r].pc \in {"awaitSession", "awaitChat", "readOk", "readErr"}

\* The slots after a step of `self` ("": no request) that leaves the cache as
\* newCache: atArrival of the other in-flight requests follows the write.
Rebase(self, newCache) ==
    [r \in Reqs |->
        IF /\ r # self
           /\ InFlight(r)
           /\ req[r].lookup = "hit"
           /\ newCache[req[r].clientId] # sessionCache[req[r].clientId]
        THEN [req[r] EXCEPT !.atArrival = newCache[req[r].clientId]]
        ELSE req[r]]

\* The session ids the proxy holds somewhere in its state.
UsedSids ==
    {sessionCache[c].sessionId : c \in ClientKeys}
        \cup {req[r].sessionId : r \in Reqs}
        \cup {req[r].atArrival.sessionId : r \in Reqs}
        \cup {cleared.sessionId}

\* A session id the proxy holds nowhere: what the downstream issues for a new
\* session, and what a caller's stale or made-up id is to the proxy.
FreshSid == CHOOSE n \in 1..(Cardinality(UsedSids) + 1) : n \notin UsedSids

\* The session ids a caller may put in body.session_id or in DELETE's query.
CallerSids == {Undefined} \cup {s \in UsedSids : s > 0} \cup {FreshSid}

\* The process before the route module is first evaluated.
NoModule == [loads |-> 0, timers |-> {}, sessionCleanupInterval |-> 0]

\* EvalModule that arms an interval timer on every evaluation.
EvalModuleUnguarded(m) ==
    [loads |-> m.loads + 1,
     timers |-> m.timers \cup {m.loads + 1},
     sessionCleanupInterval |-> m.loads + 1]

\* The module's top-level code is evaluated: the interval timer is armed, and
\* kept in global.__sessionCleanupInterval, unless the global already holds one.
EvalModule(m) ==
    IF m.sessionCleanupInterval = 0
    THEN [loads |-> m.loads + 1,
          timers |-> m.timers \cup {m.loads + 1},
          sessionCleanupInterval |-> m.loads + 1]
    ELSE [m EXCEPT !.loads = m.loads + 1]

\* The route after the module's first evaluation, before any request.
InitRoute ==
    /\ mod = EvalModule(NoModule)
    /\ started = 0
    /\ sessionCache = [c \in ClientKeys |-> NoRecord]
    /\ cleared = NoClear
    /\ req = [r \in Reqs |-> IdleReq]
    /\ last = NoResponse

Init ==
    /\ InitRoute
    /\ calc = NoCalc

(* ----------------------- the store's writes --------------------------- *)
\* getOrCreateSession, cache hit: session.lastActivity = Date.now().
CacheAfterHit(cache, c) == [cache EXCEPT ![c].age = 0]

\* getOrCreateSession, response.ok: the record is installed with data.session_id.
CacheAfterCreate(cache, c, sid) == [cache EXCEPT ![c] = [sessionId |-> sid, age |-> 0]]

\* CacheAfterCreateFailure that discards the client's record when creation fails.
CacheAfterCreateFailureDrops(cache, c) == [cache EXCEPT ![c] = NoRecord]

\* getOrCreateSession, non-OK response or a throw inside the try: no write.
CacheAfterCreateFailure(cache, c) == cache

\* CacheAfterChat that refreshes a record the client has and creates none.
CacheAfterChatExistingOnly(cache, c, dataSid) ==
    IF dataSid # Undefined /\ cache[c] # NoRecord
    THEN [cache EXCEPT ![c] = [sessionId |-> dataSid, age |-> 0]]
    ELSE cache

\* POST, after a parsed 2xx chat response: if (data.session_id && clientId) ...
CacheAfterChat(cache, c, dataSid) ==
    IF dataSid # Undefined
    THEN [cache EXCEPT ![c] = [sessionId |-> dataSid, age |-> 0]]
    ELSE cache

\* CacheAfterChatFailure that evicts the client's record when the chat call fails.
CacheAfterChatFailureEvicts(cache, c) == [cache EXCEPT ![c] = NoRecord]

\* POST, non-OK chat response or the catch block: no write.
CacheAfterChatFailure(cache, c) == cache

\* CacheAfterDelete that removes the client's record whatever session id it holds.
CacheAfterDeleteAlways(cache, c, qsid) == [cache EXCEPT ![c] = NoRecord]

\* DELETE with a session_id: the record goes only if it holds that session id.
CacheAfterDelete(cache, c, qsid) ==
    IF cache[c] # NoRecord /\ cache[c].sessionId = qsid
    THEN [cache EXCEPT ![c] = NoRecord]
    ELSE cache

\* The cleanup interval's loop over Object.entries(sessionCache).
CacheAfterSweep(cache) ==
    [c \in ClientKeys |->
        IF cache[c] # NoRecord /\ SweepRemoves(cache[c]) THEN NoRecord ELSE cache[c]]

\* ClassifyError that answers every thrown error as an internal error.
ClassifyErrorAlways500(kind) == 500

\* POST's catch block: the response status for a thrown error.
ClassifyError(kind) ==
    IF kind = "AbortError" THEN 504
    ELSE IF kind = "ECONNREFUSED" THEN 503
    ELSE 500

(* ------------------------------ POST ---------------------------------- *)
\* The slot of a handler that has answered: its locals are gone.
Done == IdleReq

\* Forwarding that ends the request when getOrCreateSession's creation call failed.
ForwardingUnlessCreationFailed(q, sid) ==
    IF q.aborted \/ q.createResult = "failed"
    THEN Done
    ELSE [q EXCEPT !.pc = "awaitChat", !.sessionId = sid, !.chatCalls = 1]

\* The slot of a handler that calls the chat fetch with session id sid: an
\* already aborted signal rejects the fetch at once, and the catch block answers.
Forwarding(q, sid) ==
    IF q.aborted
    THEN Done
    ELSE [q EXCEPT !.pc = "awaitChat", !.sessionId = sid, !.chatCalls = 1]

\* The last response after the handler in slot q called the chat fetch.
ForwardingResponse(q) ==
    IF q.aborted THEN Response(q, ClassifyError("AbortError")) ELSE NoResponse

\* A request can arrive and be handled in slot r (slots are taken in order).
CanArrive(r) ==
    /\ started < MaxReqs
    /\ req[r].pc = "idle"
    /\ r = "q" => req["p"].pc # "idle"

\* PostAs that looks the client up in the cache before it considers the body's
\* session_id: a live record wins over the explicit session id.
PostAsConsultsStore(r, c, bodySid) ==
    /\ CanArrive(r)
    /\ LET rec == sessionCache[c]
           hit == rec # NoRecord /\ IsLive(rec)
           newCache == IF hit THEN CacheAfterHit(sessionCache, c) ELSE sessionCache
           q0 == [IdleReq EXCEPT !.clientId = c, !.timerArmed = TRUE]
           q1 == IF hit
                 THEN Forwarding([q0 EXCEPT !.lookup = "hit", !.atArrival = rec],
                                 rec.sessionId)
                 ELSE IF bodySid # Undefined
                 THEN Forwarding([q0 EXCEPT !.lookup = "explicit"], bodySid)
                 ELSE [q0 EXCEPT !.pc = "awaitSession",
                                 !.lookup = IF rec = NoRecord THEN "miss" ELSE "expired",
                                 !.createResult = "pending"]
       IN
       /\ sessionCache' = newCache
       /\ req' = [Rebase(r, newCache) EXCEPT ![r] = q1]
       /\ cleared' = IF bodySid = Undefined /\ cleared.clientId = c THEN NoClear ELSE cleared
    /\ started' = started + 1
    /\ last' = NoResponse
    /\ UNCHANGED <<mod, calc>>

\* POST up to its first await of a downstream call, for a request of client c
\* whose body has arrived with session_id bodySid: the timer is set, the body
\* parsed, and the session looked up unless the body names one.
PostAs(r, c, bodySid) ==
    /\ CanArrive(r)
    /\ LET rec == sessionCache[c]
           hit == bodySid = Undefined /\ rec # NoRecord /\ IsLive(rec)
           newCache == IF hit THEN CacheAfterHit(sessionCache, c) ELSE sessionCache
           q0 == [IdleReq EXCEPT !.clientId = c, !.timerArmed = TRUE]
           q1 == IF bodySid # Undefined
                 THEN Forwarding([q0 EXCEPT !.lookup = "explicit"], bodySid)
                 ELSE IF hit
                 THEN Forwarding([q0 EXCEPT !.lookup = "hit", !.atArrival = rec],
                                 rec.sessionId)
                 ELSE [q0 EXCEPT !.pc = "awaitSession",
                                 !.lookup = IF rec = NoRecord THEN "miss" ELSE "expired",
                                 !.createResult = "pending"]
       IN
       /\ sessionCache' = newCache
       /\ req' = [Rebase(r, newCache) EXCEPT ![r] = q1]
       /\ cleared' = IF bodySid = Undefined /\ cleared.clientId = c THEN NoClear ELSE cleared
    /\ started' = started + 1
    /\ last' = NoResponse
    /\ UNCHANGED <<mod, calc>>

\* PostStart that keeps unidentified callers apart: a request that resolves to
\* no identity is not looked up and gets a session of its own.
PostStartUnidentifiedApart(r, hdr, bodyCid, xff, bodySid) ==
    LET c == ResolveClientId(hdr, bodyCid, xff) IN
    IF c = "default" /\ bodySid = Undefined
    THEN /\ CanArrive(r)
         /\ req' = [req EXCEPT ![r] = [IdleReq EXCEPT !.clientId = c,
                                                      !.timerArmed = TRUE,
                                                      !.pc = "awaitSession",
                                                      !.lookup = "miss",
                                                      !.createResult = "pending"]]
         /\ started' = started + 1
         /\ last' = NoResponse
         /\ UNCHANGED <<sessionCache, cleared, mod, calc>>
    ELSE PostAs(r, c, bodySid)

\* POST up to its first await of a downstream call, with the identity resolved
\* from the request's headers and body.
PostStart(r, hdr, bodyCid, xff, bodySid) ==
    PostAs(r, ResolveClientId(hdr, bodyCid, xff), bodySid)

\* request.json() throws on an unparsable inbound body: the catch block answers 500.
PostBadBody(r) ==
    /\ CanArrive(r)
    /\ req' = [req EXCEPT ![r] = Done]
    /\ last' = Response(IdleReq, ClassifyError("other"))
    /\ started' = started + 1
    /\ UNCHANGED <<sessionCache, cleared, mod, calc>>

\* getOrCreateSession returns sid after its creation call ended as `how`, leaving
\* the cache as newCache, and POST goes on to the chat fetch.
SessionReturns(r, newCache, sid, how) ==
    LET q == [req[r] EXCEPT !.createResult = how] IN
    /\ sessionCache' = newCache
    /\ req' = [Rebase(r, newCache) EXCEPT ![r] = Forwarding(q, sid)]
    /\ last' = ForwardingResponse(q)

\* The session-creation call answers 2xx with {session_id}.
CreateSessionOk(r) ==
    /\ req[r].pc = "awaitSession"
    /\ SessionReturns(r, CacheAfterCreate(sessionCache, req[r].clientId, FreshSid),
                      FreshSid, "ok")
    /\ UNCHANGED <<started, cleared, mod, calc>>

\* The session-creation call answers 2xx with a JSON body that has no session_id.
CreateSessionNoId(r) ==
    /\ req[r].pc = "awaitSession"
    /\ SessionReturns(r, CacheAfterCreate(sessionCache, req[r].clientId, Undefined),
                      Undefined, "nosid")
    /\ UNCHANGED <<started, cleared, mod, calc>>

\* The session-creation call fails: the fetch rejects, the status is not 2xx, or
\* response.json() throws. getOrCreateSession returns undefined.
CreateSessionFail(r) ==
    /\ req[r].pc = "awaitSession"
    /\ SessionReturns(r, CacheAfterCreateFailure(sessionCache, req[r].clientId),
                      Undefined, "failed")
    /\ UNCHANGED <<started, cleared, mod, calc>>

\* ChatFails that tries the chat call once more before it gives up.
ChatFailsRetriesOnce(r, st) ==
    IF req[r].chatCalls < 2
    THEN /\ req' = [req EXCEPT ![r].pc = "awaitChat", ![r].status = 0,
                               ![r].chatCalls = @ + 1]
         /\ last' = NoResponse
         /\ UNCHANGED sessionCache
    ELSE /\ sessionCache' = CacheAfterChatFailure(sessionCache, req[r].clientId)
         /\ req' = [Rebase(r, sessionCache') EXCEPT ![r] = Done]
         /\ last' = Response(req[r], st)

\* The chat exchange of r ends in a failure answered with status st.
ChatFails(r, st) ==
    /\ sessionCache' = CacheAfterChatFailure(sessionCache, req[r].clientId)
    /\ req' = [Rebase(r, sessionCache') EXCEPT ![r] = Done]
    /\ last' = Response(req[r], st)

\* TimerFire with one controller shared by all requests: the abort reaches every
\* request in flight, and every pending chat fetch rejects.
TimerFireSharedController(r) ==
    /\ req[r].timerArmed
    /\ req[r].elapsed >= REQUEST_TIMEOUT
    /\ req' = [x \in Reqs |->
                  IF req[x].pc = "awaitChat" THEN Done
                  ELSE IF x = r \/ InFlight(x)
                  THEN [req[x] EXCEPT !.aborted = TRUE, !.timerArmed = FALSE,
                                      !.elapsed = 0]
                  ELSE req[x]]
    /\ last' = IF \E x \in Reqs : req[x].pc = "awaitChat"
               THEN Response(req[r], ClassifyError("AbortError"))
               ELSE NoResponse
    /\ UNCHANGED <<started, sessionCache, cleared, mod, calc>>

\* The abort timer fires: controller.abort(). A pending chat fetch rejects with
\* AbortError and the catch block answers 504; the session-creation fetch was
\* called without the signal and goes on waiting.
TimerFire(r) ==
    /\ req[r].timerArmed
    /\ req[r].elapsed >= REQUEST_TIMEOUT
    /\ IF req[r].pc = "awaitChat"
       THEN ChatFails(r, ClassifyError("AbortError"))
       ELSE /\ req' = [req EXCEPT ![r].aborted = TRUE, ![r].timerArmed = FALSE,
                                  ![r].elapsed = 0]
            /\ UNCHANGED sessionCache
            /\ last' = NoResponse
    /\ UNCHANGED <<started, cleared, mod, calc>>

\* The chat fetch resolves with a response before the timer is due: clearTimeout,
\* and the handler goes on to read the body (text() or json()).
ChatHeaders(r, ok, st) ==
    /\ req[r].pc = "awaitChat"
    /\ req[r].elapsed < REQUEST_TIMEOUT
    /\ req' = [req EXCEPT ![r].pc = IF ok THEN "readOk" ELSE "readErr",
                          ![r].status = IF ok THEN 0 ELSE st,
                          ![r].timerArmed = FALSE,
                          ![r].elapsed = 0]
    /\ UNCHANGED <<started, sessionCache, cleared, mod, calc>>
    /\ last' = NoResponse

\* The chat fetch rejects (connection refused, or any other error): the catch block.
ChatThrows(r, kind) ==
    /\ req[r].pc = "awaitChat"
    /\ req[r].elapsed < REQUEST_TIMEOUT
    /\ ChatFails(r, ClassifyError(kind))
    /\ UNCHANGED <<started, cleared, mod, calc>>

\* The body of a non-OK chat response is read: the downstream status is passed
\* through; a body that cannot be read throws into the catch block.
ReadError(r, readable) ==
    /\ req[r].pc = "readErr"
    /\ ChatFails(r, IF readable THEN req[r].status ELSE ClassifyError("other"))
    /\ UNCHANGED <<started, cleared, mod, calc>>

\* response.json() of a 2xx chat response throws: the catch block answers 500.
ReadUnparsable(r) ==
    /\ req[r].pc = "readOk"
    /\ ChatFails(r, ClassifyError("other"))
    /\ UNCHANGED <<started, cleared, mod, calc>>

\* The 2xx chat body parses; data.session_id is dataSid. The cache is updated
\* and the response is sent with status 200.
ChatSuccess(r, dataSid) ==
    /\ req[r].pc = "readOk"
    /\ sessionCache' = CacheAfterChat(sessionCache, req[r].clientId, dataSid)
    /\ req' = [Rebase(r, sessionCache') EXCEPT ![r] = Done]
    /\ last' = Response(req[r], 200)
    /\ UNCHANGED <<started, cleared, mod, calc>>

\* The downstream echoes the session id it was sent.
ChatSuccessEcho(r) ==
    /\ req[r].sessionId # Undefined
    /\ ChatSuccess(r, req[r].sessionId)

\* The downstream answers under a session id of its own: a rotated one, or the
\* one it created for a request that carried none.
ChatSuccessFresh(r) == ChatSuccess(r, FreshSid)

\* The downstream's 2xx body has no session_id.
ChatSuccessNoId(r) == ChatSuccess(r, Undefined)

(* ------------------------ DELETE, cleanup, clock ---------------------- *)
\* The DELETE handler, ?session_id=qsid with the x-client-id header hdr: a
\* request without session_id is answered 400 and changes nothing.
DeleteHandler(hdr, qsid) ==
    /\ sessionCache' = IF qsid # Undefined
                       THEN CacheAfterDelete(sessionCache, DeleteClientId(hdr), qsid)
                       ELSE sessionCache
    /\ req' = Rebase("", sessionCache')
    /\ UNCHANGED <<started, mod, calc>>
    /\ last' = NoResponse

\* A DELETE request.
Delete(hdr, qsid) ==
    /\ DeleteHandler(hdr, qsid)
    /\ UNCHANGED cleared

\* A DELETE request, with the record it removes noted in the history.
DeleteNoted(hdr, qsid) ==
    /\ DeleteHandler(hdr, qsid)
    /\ cleared' = IF sessionCache' # sessionCache
                  THEN [clientId |-> DeleteClientId(hdr), sessionId |-> qsid]
                  ELSE cleared

\* One run of the callback of the interval timer that the latest evaluation of
\* the module armed: it sweeps the sessionCache the handlers use.
Sweep ==
    /\ mod.loads \in mod.timers
    /\ sessionCache' = CacheAfterSweep(sessionCache)
    /\ req' = Rebase("", sessionCache')
    /\ UNCHANGED <<started, cleared, mod, calc>>
    /\ last' = NoResponse

\* A record d later.
Aged(rec, d) ==
    IF rec = NoRecord THEN rec ELSE [rec EXCEPT !.age = Min(rec.age + d, TTL + 1)]

\* Time passes: Date.now() is d greater.
Tick(d) ==
    /\ sessionCache' = [c \in ClientKeys |-> Aged(sessionCache[c], d)]
    /\ req' = [r \in Reqs |->
                 [req[r] EXCEPT
                    !.elapsed = IF req[r].timerArmed
                                THEN Min(@ + d, REQUEST_TIMEOUT + 1) ELSE @,
                    !.atArrival = Aged(@, d)]]
    /\ UNCHANGED <<started, cleared, mod, calc>>
    /\ last' = NoResponse

\* A POST request arrives and is handled in a slot of S.
Arrive(S) ==
    \/ \E r \in S, hdr \in HeaderIds, bodyCid \in BodyIds, xff \in ForwardedIds,
          bodySid \in CallerSids : PostStart(r, hdr, bodyCid, xff, bodySid)
    \/ \E r \in S : PostBadBody(r)

\* A later step of a POST handler, a step of the cleanup interval or of the clock.
Progress ==
    \/ \E r \in Reqs : CreateSessionOk(r)
    \/ \E r \in Reqs : CreateSessionNoId(r)
    \/ \E r \in Reqs : CreateSessionFail(r)
    \/ \E r \in Reqs : TimerFire(r)
    \/ \E r \in Reqs, ok \in BOOLEAN, st \in ErrStatuses : ChatHeaders(r, ok, st)
    \/ \E r \in Reqs, kind \in FetchErrors : ChatThrows(r, kind)
    \/ \E r \in Reqs, readable \in BOOLEAN : ReadError(r, readable)
    \/ \E r \in Reqs : ReadUnparsable(r)
    \/ \E r \in Reqs : ChatSuccessEcho(r)
    \/ \E r \in Reqs : ChatSuccessFresh(r)
    \/ \E r \in Reqs : ChatSuccessNoId(r)
    \/ Sweep
    \/ \E d \in TickSteps : Tick(d)

\* A step of a POST handler, of the cleanup interval or of the clock.
Serve ==
    \/ Arrive(Reqs)
    \/ Progress

Next ==
    \/ Serve
    \/ \E hdr \in HeaderIds, qsid \in CallerSids : Delete(hdr, qsid)

Spec == Init /\ [][Next]_vars

\* The route module is evaluated again (a reload of the route's bundle) while no
\* request is being handled: the handlers from now on are those of the new
\* evaluation, with its own, empty sessionCache.
Reload ==
    /\ mod.loads < MaxLoads
    /\ \A r \in Reqs : req[r].pc = "idle"
    /\ mod' = EvalModule(mod)
    /\ sessionCache' = [c \in ClientKeys |-> NoRecord]
    /\ last' = NoResponse
    /\ UNCHANGED <<started, cleared, req, calc>>

NextReload ==
    \/ Arrive({"p"})
    \/ Progress
    \/ \E hdr \in HeaderIds, qsid \in CallerSids : Delete(hdr, qsid)
    \/ Reload

\* The route in a process that evaluates the route module more than once and
\* handles its POST requests one at a time.
SpecReload == Init /\ [][NextReload]_vars

\* SpecReload with the scheduling the runtime gives: the clock keeps advancing,
\* and the callback of a pending interval timer keeps being run.
SpecReloadFair ==
    /\ SpecReload
    /\ WF_vars(\E d \in TickSteps : Tick(d))
    /\ WF_vars(Sweep)

\* The route serving one client, "a": every request carries x-client-id: a.
NextOneClient ==
    \/ \E r \in Reqs, bodySid \in CallerSids : PostAs(r, "a", bodySid)
    \/ Progress

SpecOneClient == Init /\ [][NextOneClient]_vars

(* ----------------------- downstream unreachable ------------------------ *)
\* How a fetch reports a refused connection. POST's catch block reads error.code;
\* the fetch implementations differ in where they put the system error's code:
\* on the rejection itself ("ECONNREFUSED"), or on its cause, the rejection
\* being a TypeError without a code ("cause.ECONNREFUSED").
RefusedErrors == {"ECONNREFUSED", "cause.ECONNREFUSED"}

\* The caches the outage may find: per key no record, a live one or an expired one.
CachesBefore ==
    [ClientKeys -> {NoRecord, [sessionId |-> 1, age |-> 0],
                    [sessionId |-> 1, age |-> TTL + 1]}]

\* GET's answer, by how its fetch of the downstream's root ended: "ok" a 2xx
\* response with a JSON body, "notOk" another response, "throws" a rejection
\* (also the 5 s timeout), or a body that is not JSON.
HealthResponse(outcome) ==
    CASE outcome = "ok" ->
            [status |-> 200, body |-> [status |-> "healthy", error |-> NoVal]]
      [] outcome = "notOk" ->
            [status |-> 503,
             body |-> [status |-> "unhealthy", error |-> "Backend not responding"]]
      [] OTHER ->
            [status |-> 503,
             body |-> [status |-> "unhealthy", error |-> "Cannot reach backend"]]

\* The route at the start of an outage of the downstream.
InitDown ==
    /\ mod = EvalModule(NoModule)
    /\ started = 0
    /\ sessionCache \in CachesBefore
    /\ cleared = NoClear
    /\ req = [r \in Reqs |-> IdleReq]
    /\ last = NoResponse
    /\ calc = NoCalc

\* A GET health request while the downstream refuses connections.
HealthDown ==
    /\ calc' = [fn |-> "HealthResponse", in |-> "throws",
                out |-> HealthResponse("throws"), done |-> TRUE]
    /\ last' = NoResponse
    /\ UNCHANGED <<started, sessionCache, cleared, req, mod>>

\* The downstream refuses every connection: each fetch rejects at once.
NextDown ==
    \/ Arrive(Reqs)
    \/ \E r \in Reqs : CreateSessionFail(r)
    \/ \E r \in Reqs, kind \in RefusedErrors : ChatThrows(r, kind)
    \/ HealthDown

SpecDown == InitDown /\ [][NextDown]_vars

NextClear ==
    \/ Serve
    \/ \E hdr \in HeaderIds, qsid \in CallerSids : DeleteNoted(hdr, qsid)

\* The route with the records that DELETE removes noted in `cleared`.
SpecClear == Init /\ [][NextClear]_vars

(* --------------------- functions of the handlers ---------------------- *)
\* The inputs of POST's identity resolution: the x-client-id header, the body's
\* clientId and the x-forwarded-for header.
IdentityInputs == [hdr : IdentityValues, bodyCid : IdentityValues, xff : IdentityValues]

\* The bodies of a non-OK chat response: a JSON object with or without the
\* fields error and detail, and a text that JSON.parse rejects.
ErrorBodies ==
    {[json |-> TRUE, error |-> e, detail |-> d, text |-> "{...}"] :
        e \in {NoVal, "boom"}, d \in {NoVal, "why"}}
        \cup {[json |-> FALSE, error |-> NoVal, detail |-> NoVal, text |-> "<html>"]}

\* The statuses of the non-OK chat responses of SpecPure.
ErrorBodyStatuses == {404, 500, 503}

\* The inputs of POST's handling of a non-OK chat response.
ErrorInputs == [status : ErrorBodyStatuses, body : ErrorBodies]

\* ErrorDetail that prefers the body's detail field to its error field.
ErrorDetailDetailFirst(body) ==
    IF body.json THEN OrElse(body.detail, OrElse(body.error, body.text)) ELSE body.text

\* POST's errorDetail: errorJson.error || errorJson.detail || errorText, and
\* errorText when JSON.parse throws.
ErrorDetail(body) ==
    IF body.json THEN OrElse(body.error, OrElse(body.detail, body.text)) ELSE body.text

\* ErrorResponse that gives no detail for a body that is not JSON.
ErrorResponseDropsNonJson(status, body) ==
    [status |-> status,
     body |-> [error |-> "Backend service error",
               detail |-> IF body.json THEN ErrorDetail(body) ELSE "",
               status |-> status]]

\* POST's answer to a non-OK chat response: its status and JSON body.
ErrorResponse(status, body) ==
    [status |-> status,
     body |-> [error |-> "Backend service error",
               detail |-> ErrorDetail(body),
               status |-> status]]

\* Session ids as a caller or the downstream writes them (SpecPure); NoVal is a
\* missing field.
SessionIdValues == {NoVal, "s1", "s2"}

\* The inputs of POST's answer to a 2xx chat response: the session id the chat
\* call was sent under (chatRequest.session_id) and the parsed body `data`.
SuccessInputs ==
    [sessionId : SessionIdValues,
     data : [session_id : SessionIdValues, reply : {"hi"}]]

\* POST's answer to a 2xx chat response: the downstream's body as it is, and the
\* X-Session-Id header data.session_id || "".
SuccessResponse(sessionId, data) ==
    [status |-> 200,
     body |-> data,
     headers |-> [XSessionId |-> OrElse(data.session_id, "")]]

\* The keys of a context object that the model follows: the three that POST
\* sets, and one of the caller's own.
ContextKeys == {"clientId", "timestamp", "source", "page"}

\* The context objects a caller may send in body.context: each key is absent
\* (NoVal) or has a value of the caller's. A body without context is the
\* object with every key absent.
CallerContexts ==
    [clientId : {NoVal, "mallory"}, timestamp : {NoVal, "t0"},
     source : {NoVal, "cli"}, page : {NoVal, "/home"}]

\* The object spread {...base, ...over}: a key of `over` replaces that of `base`.
Spread(base, over) ==
    [k \in ContextKeys |-> IF over[k] # NoVal THEN over[k] ELSE base[k]]

\* The inputs of POST's chatRequest: the session id, the resolved clientId and
\* the parsed body.
ChatRequestInputs ==
    [sessionId : {"s1"},
     clientId : ClientKeys,
     body : [message : {NoVal, "hello"}, query : {NoVal, "what"},
             context : CallerContexts]]

\* POST's chatRequest, the body of the chat call: the handler builds it and
\* sends it, with no test in between.
ChatRequest(sessionId, clientId, body) ==
    [session_id |-> sessionId,
     message |-> OrElse(body.message, body.query),
     context |-> Spread([clientId |-> clientId, timestamp |-> "now",
                         source |-> "web-frontend", page |-> NoVal],
                        body.context)]

\* The function applications SpecPure starts from.
CalcInputs ==
    {[fn |-> "ResolveClientId", in |-> i, out |-> NoVal, done |-> FALSE] :
        i \in IdentityInputs}
    \cup {[fn |-> "ErrorResponse", in |-> i, out |-> NoVal, done |-> FALSE] :
              i \in ErrorInputs}
    \cup {[fn |-> "SuccessResponse", in |-> i, out |-> NoVal, done |-> FALSE] :
              i \in SuccessInputs}
    \cup {[fn |-> "ChatRequest", in |-> i, out |-> NoVal, done |-> FALSE] :
              i \in ChatRequestInputs}

InitPure ==
    /\ InitRoute
    /\ calc \in CalcInputs

\* POST resolves the client identity of a request.
ApplyResolveClientId ==
    /\ calc.fn = "ResolveClientId"
    /\ ~calc.done
    /\ calc' = [calc EXCEPT
                   !.out = ResolveClientId(calc.in.hdr, calc.in.bodyCid, calc.in.xff),
                   !.done = TRUE]
    /\ UNCHANGED <<started, sessionCache, cleared, req, last, mod>>

\* POST answers a non-OK chat response whose body it has read.
ApplyErrorResponse ==
    /\ calc.fn = "ErrorResponse"
    /\ ~calc.done
    /\ calc' = [calc EXCEPT !.out = ErrorResponse(calc.in.status, calc.in.body),
                            !.done = TRUE]
    /\ UNCHANGED <<started, sessionCache, cleared, req, last, mod>>

\* POST answers a 2xx chat response whose body it has parsed.
ApplySuccessResponse ==
    /\ calc.fn = "SuccessResponse"
    /\ ~calc.done
    /\ calc' = [calc EXCEPT !.out = SuccessResponse(calc.in.sessionId, calc.in.data),
                            !.done = TRUE]
    /\ UNCHANGED <<started, sessionCache, cleared, req, last, mod>>

\* POST builds the chat request of an inbound body and sends it downstream.
ApplyChatRequest ==
    /\ calc.fn = "ChatRequest"
    /\ ~calc.done
    /\ calc' = [calc EXCEPT
                   !.out = ChatRequest(calc.in.sessionId, calc.in.clientId, calc.in.body),
                   !.done = TRUE]
    /\ UNCHANGED <<started, sessionCache, cleared, req, last, mod>>

NextPure ==
    \/ ApplyResolveClientId
    \/ ApplyErrorResponse
    \/ ApplySuccessResponse
    \/ ApplyChatRequest

\* The handlers' functions of one request, each applied to every input of a
\* bounded set.
SpecPure == InitPure /\ [][NextPure]_vars

(* ============================== claims ================================ *)

\* C1: for a client with no prior record, two overlapping POSTs without
\* session_id result in exactly one session-creation call: two handlers of one
\* client that both missed are never both waiting for a creation call.
C1_OneCreationCall ==
    \A r1, r2 \in Reqs :
        (/\ r1 # r2
         /\ req[r1].clientId = req[r2].clientId
         /\ req[r1].lookup = "miss"
         /\ req[r2].lookup = "miss")
        => ~(req[r1].pc = "awaitSession" /\ req[r2].pc = "awaitSession")

\* C2: every outbound call of a POST is under the request's deadline: once the
\* deadline has fired the handler has answered, it is never still waiting.
C2_DeadlineEndsRequest ==
    \A r \in Reqs : req[r].aborted => ~InFlight(r)

\* C3: a POST without session_id that finds the client's record younger than
\* TTL reuses its session id with no creation call; one that finds a record of
\* age >= TTL is not given that id but issues a creation call, and a successful
\* creation replaces the record by the new session id.
C3_ReuseWithinTTL ==
    [][\A r \in Reqs :
        LET c == req'[r].clientId
            rec == sessionCache[c]
        IN
        /\ (/\ req[r].pc = "idle"
            /\ req'[r].pc # "idle"
            /\ req'[r].lookup # "explicit"
            /\ rec # NoRecord)
           => IF rec.age < TTL
              THEN /\ req'[r].pc = "awaitChat"
                   /\ req'[r].sessionId = rec.sessionId
                   /\ req'[r].createResult = "none"
              ELSE /\ req'[r].pc = "awaitSession"
                   /\ req'[r].createResult = "pending"
        /\ (req[r].pc = "awaitSession" /\ req'[r].createResult = "ok")
           => /\ sessionCache'[c] = [sessionId |-> req'[r].sessionId, age |-> 0]
              /\ req'[r].sessionId # sessionCache[c].sessionId
      ]_vars

\* C3 witness: a request that found an expired record has had a new session
\* created, and the record now holds the new session id.
C3_Witness ==
    \E r \in Reqs :
        /\ req[r].lookup = "expired"
        /\ req[r].createResult = "ok"
        /\ req[r].pc = "awaitChat"
        /\ sessionCache[req[r].clientId] = [sessionId |-> req[r].sessionId, age |-> 0]

C6_FailedCreationLeavesStore ==
    [][\A r \in Reqs :
        (/\ req[r].pc = "awaitSession"
         /\ \/ req'[r].createResult = "failed"
            \/ req'[r].pc = "idle" /\ last'.createResult = "failed")
        => sessionCache' = sessionCache
      ]_vars

\* C6 witness: the creation call of a request that found an expired record has
\* failed, and the expired record is still in the cache.
C6_Witness ==
    \E r \in Reqs :
        /\ req[r].lookup = "expired"
        /\ req[r].createResult = "failed"
        /\ sessionCache[req[r].clientId] # NoRecord
        /\ sessionCache[req[r].clientId].age >= TTL

\* C7: every record in the session cache has a defined, non-empty sessionId.
C7_RecordsHaveSessionId ==
    \A c \in ClientKeys :
        sessionCache[c] # NoRecord => sessionCache[c].sessionId # Undefined

\* C8: a cleanup sweep removes a record if and only if its age is >= TTL.
C8_SweepRemovesIffExpired ==
    [][Sweep =>
        \A c \in ClientKeys :
            sessionCache[c] # NoRecord
            => (sessionCache'[c] = NoRecord <=> sessionCache[c].age >= TTL)
      ]_vars

\* C9: when the record of a request's client has been removed while the request
\* was in flight, the update on the successful response does not re-create it.
C9_TouchDoesNotRecreate ==
    [][\A r \in Reqs :
        (/\ req[r].pc = "readOk"
         /\ req'[r].pc = "idle"
         /\ last'.status = 200
         /\ req[r].lookup = "hit" \/ req[r].createResult = "ok"
         /\ sessionCache[req[r].clientId] = NoRecord)
        => sessionCache'[req[r].clientId] = NoRecord
      ]_vars

\* C10: the first getOrCreateSession of a client after a DELETE removed the
\* client's record issues a creation call and does not return the removed
\* session id.
C10_FreshSessionAfterClear ==
    [][\A r \in Reqs :
        (/\ req[r].pc = "idle"
         /\ req'[r].pc # "idle"
         /\ req'[r].lookup # "explicit"
         /\ cleared.clientId = req'[r].clientId)
        => /\ req'[r].pc = "awaitSession"
           /\ req'[r].sessionId # cleared.sessionId
      ]_vars

\* C11 as stated: after a DELETE that carries a non-empty session_id for a
\* client, no record of that client remains in the cache, whatever session id
\* the record held.
C11_DeleteRemovesUnconditionally ==
    [][\A hdr \in HeaderIds, qsid \in CallerSids :
          (Delete(hdr, qsid) /\ qsid # Undefined)
              => sessionCache'[DeleteClientId(hdr)] = NoRecord]_vars

\* C11 as amended: a DELETE that carries a non-empty session_id removes the
\* client's record only if the record holds that session id: whenever such a
\* DELETE changes which session id a key holds, the record of its client held
\* the session id of the query, that record is gone, and every other key is as
\* it was; a record that holds another session id stays.
C11_DeleteRemovesOnlyNamedSession ==
    [][(/\ started' = started
        /\ last' = NoResponse
        /\ \E k \in ClientKeys : sessionCache'[k].sessionId # sessionCache[k].sessionId)
          => \A hdr \in HeaderIds, qsid \in CallerSids \ {Undefined} :
                Delete(hdr, qsid)
                    => LET c == DeleteClientId(hdr) IN
                       /\ sessionCache[c].sessionId = qsid
                       /\ sessionCache' = [sessionCache EXCEPT ![c] = NoRecord]]_vars

\* C11 witness: a DELETE has removed a record. The request in the slot had the
\* record created and no time has passed since it arrived, so no sweep can have
\* removed the record; the other key still holds one.
C11_Witness ==
    \E r \in Reqs :
        /\ req[r].pc = "awaitChat"
        /\ req[r].createResult = "ok"
        /\ req[r].elapsed = 0
        /\ sessionCache[req[r].clientId] = NoRecord
        /\ \E c \in ClientKeys : sessionCache[c] # NoRecord

\* C12: after a DELETE with session_id = s (every such DELETE is answered
\* "Session cleared") no record in the cache holds session id s, under whichever
\* key POST cached it; a DELETE without session_id changes nothing.
C12_ClearedSessionIsGone ==
    [][(started' = started /\ last' = NoResponse)
          => \A hdr \in HeaderIds, qsid \in CallerSids :
                Delete(hdr, qsid)
                    => IF qsid # Undefined
                       THEN \A c \in ClientKeys : sessionCache'[c].sessionId # qsid
                       ELSE sessionCache' = sessionCache]_vars

\* C13: the cleanup scheduler starts exactly once per process: at most one
\* cleanup interval timer is armed, however many requests are handled and
\* however many times the route module is evaluated.
C13_OneCleanupTimer == Cardinality(mod.timers) <= 1

\* C13 witness: the module has been evaluated again after a request was
\* handled, and one timer is armed.
C13_Witness ==
    /\ mod.loads > 1
    /\ started > 0
    /\ Cardinality(mod.timers) = 1

\* C14: the session cache does not leak: once the requests have stopped, every
\* record is eventually removed, by a DELETE or by the cleanup sweep.
C14_NoLeak ==
    \A c \in ClientKeys : (sessionCache[c] # NoRecord) ~> (sessionCache[c] = NoRecord)

\* C15: the client identity of a POST is the first present value in the order
\* x-client-id header, body clientId, x-forwarded-for header, "default": a
\* later source is used only when every earlier one is absent.
C15_IdentityPrecedence ==
    (calc.fn = "ResolveClientId" /\ calc.done)
        => LET sources == <<calc.in.hdr, calc.in.bodyCid, calc.in.xff, "default">>
               first == CHOOSE i \in 1..4 :
                            /\ sources[i] # NoVal
                            /\ \A j \in 1..(i - 1) : sources[j] = NoVal
           IN calc.out = sources[first]

\* C15 witness: with no x-client-id header, and a body clientId and an
\* x-forwarded-for header that differ, the identity is the body's clientId.
C15_Witness ==
    /\ calc.fn = "ResolveClientId"
    /\ calc.done
    /\ calc.in.hdr = NoVal
    /\ calc.in.bodyCid # NoVal
    /\ calc.in.xff \notin {NoVal, calc.in.bodyCid}
    /\ calc.out = calc.in.bodyCid

\* C16: a POST whose body carries a session_id uses it as it is, without the
\* session cache: that session id is the one sent downstream with the chat
\* call, no session-creation call is issued, and the cache is left as it was,
\* whatever record it holds for the client.
C16_ExplicitSessionUsedAsIs ==
    [][(started' = started + 1)
          => \A bodySid \in CallerSids \ {Undefined} :
             \A r \in {x \in Reqs : req[x].pc = "idle" /\ req'[x].pc # "idle"} :
                PostAs(r, req'[r].clientId, bodySid)
                    => /\ req'[r].pc = "awaitChat"
                       /\ req'[r].sessionId = bodySid
                       /\ req'[r].chatCalls = 1
                       /\ req'[r].createResult = "none"
                       /\ sessionCache' = sessionCache]_vars

\* C16 witness: the chat call of a request is under way with the session id of
\* its body while the cache holds a live record of its client with another
\* session id, and no creation call was made for the request.
C16_Witness ==
    \E r \in Reqs :
        /\ req[r].pc = "awaitChat"
        /\ req[r].lookup = "explicit"
        /\ req[r].createResult = "none"
        /\ sessionCache[req[r].clientId] # NoRecord
        /\ IsLive(sessionCache[req[r].clientId])
        /\ sessionCache[req[r].clientId].sessionId # req[r].sessionId

\* The status the error table gives a downstream failure: 504 for the deadline,
\* 503 for a refused connection, 500 for any other exception.
C17_TableStatus(kind) ==
    CASE kind = "AbortError" -> 504
      [] kind = "ECONNREFUSED" -> 503
      [] OTHER -> 500

\* A chat call that fails is answered by the table: the step is a rejection of
\* the chat fetch of kind `kind`, or the deadline firing on the pending fetch.
C17_ChatPhaseClassified ==
    /\ \A r \in Reqs, kind \in FetchErrors :
          ChatThrows(r, kind) => last'.status = C17_TableStatus(kind)
    /\ \A r \in Reqs :
          (/\ req[r].pc = "awaitChat"
           /\ req[r].elapsed >= REQUEST_TIMEOUT
           /\ req'[r].pc = "idle")
              => last'.status = C17_TableStatus("AbortError")

\* The session-creation call of r has just failed.
C17_CreationFailed(r) ==
    /\ req[r].pc = "awaitSession"
    /\ \/ req'[r].pc = "awaitChat" /\ req'[r].createResult = "failed"
       \/ req'[r].pc = "idle" /\ last'.createResult = "failed"

C19_SuccessEchoesSession ==
    (calc.fn = "SuccessResponse" /\ calc.done /\ calc.in.sessionId # NoVal)
        => LET active == OrElse(calc.in.data.session_id, calc.in.sessionId) IN
           /\ calc.out.body.session_id = active
           /\ calc.out.headers.XSessionId = active

\* C20: after a successful chat exchange of a client the client's record holds
\* the session id of the exchange (the one the downstream returned, else the one
\* the chat was sent under) and its lastActivity is the time of the response,
\* so that a lookup within TTL of the response is a hit on that session id.
C20_SuccessTouchesRecord ==
    [][(last'.status = 200)
          => \A r \in {x \in Reqs : req[x].pc = "readOk" /\ req'[x].pc = "idle"} :
             \A dataSid \in CallerSids :
                (/\ ChatSuccess(r, dataSid)
                 /\ dataSid # Undefined \/ req[r].sessionId # Undefined)
                    => LET rec == sessionCache'[req[r].clientId] IN
                       /\ rec # NoRecord
                       /\ rec.sessionId = IF dataSid # Undefined THEN dataSid
                                          ELSE req[r].sessionId
                       /\ rec.age = 0
                       /\ IsLive(rec)]_vars

\* C21: last response wins. Under SpecOneClient all requests are of one client;
\* when a request completes with success in the step after another request's
\* success response (so both were in flight together, and this response is the
\* last), the record holds this exchange's session id (the one its response
\* carries, else the one it was sent under) with lastActivity the time of this
\* response.
C21_LastResponseWins ==
    [][(last.status = 200 /\ last'.status = 200)
          => \A r \in {x \in Reqs : req[x].pc = "readOk" /\ req'[x].pc = "idle"} :
             \A dataSid \in CallerSids :
                (/\ ChatSuccess(r, dataSid)
                 /\ dataSid # Undefined \/ req[r].sessionId # Undefined)
                    => sessionCache'[req[r].clientId] =
                          [sessionId |-> IF dataSid # Undefined THEN dataSid
                                         ELSE req[r].sessionId,
                           age |-> 0]]_vars

\* C22: every chat request sent downstream carries a non-empty message: a POST
\* whose message is missing or empty is never forwarded.
C22_ForwardedMessageNonEmpty ==
    (calc.fn = "ChatRequest" /\ calc.done)
        => /\ calc.out.message # NoVal
           /\ calc.in.body.message # NoVal

\* C23: the context sent downstream has clientId equal to the resolved client
\* identity and source equal to "web-frontend", for every context of the
\* caller's, also one that has the keys clientId, timestamp or source itself.
C23_ContextEnriched ==
    (calc.fn = "ChatRequest" /\ calc.done)
        => /\ calc.out.context.clientId = calc.in.clientId
           /\ calc.out.context.source = "web-frontend"

\* C24: while the downstream is unreachable, GET health answers 503 with status
\* "unhealthy" and an error that says the backend cannot be reached, and every
\* chat POST answered meanwhile is answered 503, whether its client had a
\* cached session or not (a POST whose own body cannot be parsed aside).
C24_UnreachableIs503 ==
    /\ calc.done
          => /\ calc.out.status = 503
             /\ calc.out.body.status = "unhealthy"
             /\ calc.out.body.error = "Cannot reach backend"
    /\ (last.status # 0 /\ last.lookup # "none") => last.status = 503

\* C25: callers without identity share the bucket "default": a POST with no
\* x-client-id header, no body clientId, no x-forwarded-for and no session_id
\* is keyed to "default", and while the cache holds a live record under that
\* key, made for whichever caller came first, the request is forwarded under
\* that record's session id and no session is created for it.
C25_UnidentifiedShareDefault ==
    [][(started' = started + 1)
          => \A r \in {x \in Reqs : req[x].pc = "idle" /\ req'[x].pc # "idle"} :
                (/\ PostStart(r, NoVal, NoVal, NoVal, Undefined)
                 /\ sessionCache["default"] # NoRecord
                 /\ IsLive(sessionCache["default"]))
                    => /\ req'[r].clientId = "default"
                       /\ req'[r].pc = "awaitChat"
                       /\ req'[r].sessionId = sessionCache["default"].sessionId
                       /\ req'[r].createResult = "none"]_vars

\* C25 witness: two unidentified requests are in flight under one session id,
\* the one that had it created and a later one that found it in the cache.
C25_Witness ==
    \E r1, r2 \in Reqs :
        /\ r1 # r2
        /\ req[r1].clientId = "default" /\ req[r2].clientId = "default"
        /\ req[r1].pc = "awaitChat" /\ req[r1].createResult = "ok"
        /\ req[r2].pc = "awaitChat" /\ req[r2].lookup = "hit"
        /\ req[r2].sessionId = req[r1].sessionId

\* C26: no cancellation across requests: the deadline of a request firing aborts
\* that request's own chat call only. Every other request, of the same client
\* or of another, is left exactly as it was (still in flight, not aborted, its
\* own timer as it was), and the only response the step gives is the 504 of the
\* request whose deadline fired.
C26_DeadlineAbortsOwnRequestOnly ==
    [][\A r \in Reqs :
          (req[r].timerArmed /\ ~req'[r].timerArmed /\ TimerFire(r))
              => /\ \A o \in Reqs \ {r} : req'[o] = req[o]
                 /\ last'.status # 0 => (req[r].pc = "awaitChat" /\ last'.status = 504)
                 /\ sessionCache' = sessionCache]_vars

\* C26 witness: a deadline has fired and was answered 504 while another request
\* of the same client is still waiting for its chat call, not aborted.
C26_Witness ==
    /\ last.status = 504
    /\ \E o \in Reqs :
          /\ req[o].pc = "awaitChat"
          /\ ~req[o].aborted
          /\ req[o].timerArmed
          /\ req[o].clientId = "a"
          /\ last.lookup = "miss"
          /\ req[o].lookup = "hit"

\* C27: a POST makes at most one session-creation call and at most one chat
\* call, whatever their outcome, and a failed chat call is answered, not
\* retried. A creation call is issued only by a request that has just arrived;
\* a chat call only by a request that has issued none; a request that waits for
\* or reads the chat call's answer never goes back to an earlier step; and a
\* request that leaves the wait for the chat call without response headers
\* (rejection, deadline), or has read a non-2xx body, ends in that step with
\* an error response.
C27_OneCallEachNoRetry ==
    [][\A r \in Reqs :
          /\ (req'[r].pc = "awaitSession" /\ req[r].pc # "awaitSession")
                => req[r].pc = "idle"
          /\ (/\ req'[r].pc = "awaitChat"
              /\ (req[r].pc # "awaitChat" \/ req'[r].chatCalls # req[r].chatCalls))
                => (req[r].pc \in {"idle", "awaitSession"} /\ req[r].chatCalls = 0)
          /\ req[r].pc = "awaitChat"
                => req'[r].pc \in {"awaitChat", "readOk", "readErr", "idle"}
          /\ req[r].pc \in {"readOk", "readErr"} => req'[r].pc \in {req[r].pc, "idle"}
          /\ req'[r].chatCalls <= 1
          /\ (\/ (req[r].pc = "awaitChat" /\ req'[r].pc = "idle")
              \/ (req[r].pc = "readErr" /\ req'[r].pc = "idle"))
                => (req'[r] = Done /\ last'.status >= 400)]_vars

\* C27 witness: a request that had a session created and then called the chat
\* endpoint was answered 503 for the refused chat call, and its handler is gone.
C27_Witness ==
    /\ last.status = 503
    /\ last.createResult = "ok"
    /\ \A r \in Reqs : req[r].pc = "idle"

\* C28: the detail of the answer to a non-2xx downstream response is taken from
\* the body as far as it goes: the error field of a JSON body that has one,
\* otherwise its detail field, otherwise the raw text of the body; a body
\* that is not JSON, or is JSON without either field, gives its raw text, and
\* the answer is a failure response all the same.
C28_DetailBestEffort ==
    (calc.fn = "ErrorResponse" /\ calc.done)
        => LET b == calc.in.body
               fromJson == IF b.error # NoVal THEN b.error ELSE b.detail
           IN
           /\ (b.json /\ fromJson # NoVal) => calc.out.body.detail = fromJson
           /\ (~b.json \/ fromJson = NoVal) => calc.out.body.detail = b.text
           /\ calc.out.status >= 400
           /\ calc.out.body.error = "Backend service error"

\* C28 witness: a 404 whose JSON body has neither field has been answered as a
\* failure with the body's raw text as detail.
C28_Witness ==
    /\ calc.fn = "ErrorResponse"
    /\ calc.done
    /\ calc.in.body.json
    /\ calc.in.body.error = NoVal
    /\ calc.in.body.detail = NoVal
    /\ calc.in.status = 404
    /\ calc.out.status = 404
    /\ calc.out.body.detail = calc.in.body.text

\* C29: after the route module has been evaluated again, the one cleanup timer
\* sweeps the cache the handlers read and write: whenever that cache holds a
\* record old enough for the sweep to remove, the armed timer is one whose
\* callback sweeps that cache, so the record is removed at its next run.
C29_TimerSweepsActiveCache ==
    (\E c \in ClientKeys :
        sessionCache[c] # NoRecord /\ SweepRemoves(sessionCache[c]))
        => (mod.timers # {} /\ \A t \in mod.timers : t = mod.loads)

\* C30: the success response of a POST that carried an explicit session_id
\* writes the store: the client's record becomes the session id the downstream
\* returned, with lastActivity the time of the response, whether the client had
\* no record (it is created) or one with another session id (it is replaced),
\* and no other client's record changes; when the downstream's body has no
\* session_id the store is left as it was.
C30_ExplicitSuccessWritesStore ==
    [][(last'.status = 200 /\ last'.lookup = "explicit")
          => \A r \in {x \in Reqs : /\ req[x].pc = "readOk"
                                    /\ req[x].lookup = "explicit"
                                    /\ req'[x].pc = "idle"} :
             \A dataSid \in CallerSids :
                ChatSuccess(r, dataSid)
                    => LET c == req[r].clientId IN
                       IF dataSid = Undefined
                       THEN sessionCache' = sessionCache
                       ELSE /\ sessionCache'[c] = [sessionId |-> dataSid, age |-> 0]
                            /\ \A o \in ClientKeys \ {c} :
                                  sessionCache'[o] = sessionCache[o]]_vars

\* C30 witness: the only request so far carried an explicit session_id, made no
\* creation call and was answered 200, and the store now holds a record of
\* age 0: the response created it.
C30_Witness ==
    /\ started = 1
    /\ last.status = 200
    /\ last.lookup = "explicit"
    /\ last.createResult = "none"
    /\ \E c \in ClientKeys : sessionCache[c] # NoRecord /\ sessionCache[c].age = 0

====
